---- MODULE Spec2Model ----
(***************************************************************************)
(* Division classification and shifted-division correction                 *)
(* (traccuracy/track_errors/_divisions.py) and per-frame IoU matching      *)
(* (traccuracy/matchers/_iou.py).                                          *)
(***************************************************************************)
EXTENDS Integers, Sequences, FiniteSets, TLC

VARIABLES
    gt_edges,          \* matched_data.gt_graph.graph: set of <<parent, child>>
    pred_edges,        \* matched_data.pred_graph.graph
    mapping,           \* matched_data.mapping: sequence of <<gt node, pred node>>
    gt_flags,          \* NodeFlag values set on each gt node
    pred_flags,        \* NodeFlag values set on each pred node
    gt_annot,          \* g_gt.division_annotations
    pred_annot,        \* g_pred.division_annotations
    gt_mbc,            \* "min_buffer_correct" attribute of each gt node
    pred_mbc,          \* "min_buffer_correct" attribute of each pred node
    pc,                \* position of the running call
    entry,             \* the top-level function being executed
    outcome,           \* how the last top-level call ended
    div_gt,            \* list of gt divisions being iterated (line 43)
    div_pred,          \* working list of unclassified pred divisions (line 44)
    i,                 \* index of the loop of line 46
    max_frame_buffer,  \* argument of evaluate_division_events
    n_frames,          \* loop variable delta of line 266
    fp_divs,           \* iteration order of the FP_DIV nodes (line 158)
    fn_divs,           \* iteration order of the FN_DIV nodes (line 159)
    k,                 \* index into itertools.product(fp_divs, fn_divs)
    recorded,          \* the <<fp, fn, n_frames>> triples written by lines 230-231
    gt_frame,          \* _match_nodes argument gt (labeled frame)
    res_frame,         \* _match_nodes argument res (labeled frame)
    threshold,         \* _match_nodes argument threshold, as <<num, den>>
    matches,           \* value returned by _match_nodes
    iou_pc             \* position of the _match_nodes call

div_vars == <<gt_edges, pred_edges, mapping, gt_flags, pred_flags, gt_annot,
              pred_annot, gt_mbc, pred_mbc, pc, entry, outcome,
              div_gt, div_pred, i, max_frame_buffer, n_frames, fp_divs, fn_divs, k,
              recorded>>
iou_vars == <<gt_frame, res_frame, threshold, matches, iou_pc>>
vars == <<div_vars, iou_vars>>

----------------------------------------------------------------------------
(* Bounds of the explored inputs *)

MaxBuffer == 2

(* Values *)

None == 0
NaN == -1
NoAttr == -2
Raise == -3

TP_DIV == "TP_DIV"
FP_DIV == "FP_DIV"
FN_DIV == "FN_DIV"
WC_DIV == "WC_DIV"
NodeFlag == {TP_DIV, FP_DIV, FN_DIV, WC_DIV}

----------------------------------------------------------------------------
(* Tracking graphs: nodes 1..7 laid out on frames 0..3 *)

Nodes == {1, 2, 3, 4, 5, 6, 7}

frame_key == [n \in Nodes |-> CASE n = 1 -> 0
                                [] n \in {2, 3} -> 1
                                [] n \in {4, 5} -> 2
                                [] OTHER -> 3]

successors(E, n) == {m \in Nodes : <<n, m>> \in E}

predecessors(E, n) == {m \in Nodes : <<m, n>> \in E}

get_divisions(E) == {n \in Nodes : Cardinality(successors(E, n)) >= 2}

HasMerge(E) == \E n \in Nodes : Cardinality(predecessors(E, n)) >= 2

Range(s) == {s[j] : j \in DOMAIN s}

Perms(S) == {s \in [1..Cardinality(S) -> S] : \A a, b \in DOMAIN s : a # b => s[a] # s[b]}

Abs(x) == IF x < 0 THEN -x ELSE x

----------------------------------------------------------------------------
(* Matched: single-match lookups, first pair in mapping order *)

get_gt_pred_match(gt_node) ==
    IF \E j \in DOMAIN mapping : mapping[j][1] = gt_node
    THEN LET first == CHOOSE j \in DOMAIN mapping :
                          /\ mapping[j][1] = gt_node
                          /\ \A l \in DOMAIN mapping : mapping[l][1] = gt_node => j <= l
         IN mapping[first][2]
    ELSE None

get_pred_gt_match(pred_node) ==
    IF \E j \in DOMAIN mapping : mapping[j][2] = pred_node
    THEN LET first == CHOOSE j \in DOMAIN mapping :
                          /\ mapping[j][2] = pred_node
                          /\ \A l \in DOMAIN mapping : mapping[l][2] = pred_node => j <= l
         IN mapping[first][1]
    ELSE None

(* collections.Counter of the list [vals[x] for x in DOMAIN vals] *)
Counter(vals) ==
    [v \in Nodes \cup {None} |-> Cardinality({x \in DOMAIN vals : vals[x] = v})]

set_flag_on_node(flags, node, flag) == [flags EXCEPT ![node] = @ \cup {flag}]

get_nodes_with_flag(flags, flag) == {n \in Nodes : flag \in flags[n]}

----------------------------------------------------------------------------
(* _classify_divisions *)

(* Mutant of AlreadyAnnotated: the guard of line 38 never holds *)
AlreadyAnnotated_never == FALSE

(* Line 38 *)
AlreadyAnnotated == gt_annot /\ pred_annot

(* Mutant of NotInDivPred: the test of line 53 is dropped *)
NotInDivPred_dropped(pred_node) == FALSE

(* Line 53 *)
NotInDivPred(pred_node) == pred_node \notin div_pred

(* Mutant of DaughtersSame: unmatched pred daughters are ignored *)
DaughtersSame_ignoring_unmatched(gt_node, pred_node) ==
    {get_pred_gt_match(n) : n \in successors(pred_edges, pred_node)} \ {None}
        \subseteq successors(gt_edges, gt_node)

(* Lines 57-66 *)
DaughtersSame(gt_node, pred_node) ==
    Counter([n \in successors(gt_edges, gt_node) |-> n])
        = Counter([n \in successors(pred_edges, pred_node) |-> get_pred_gt_match(n)])

(* Mutant of RemoveClassified: the classified division stays in the list *)
RemoveClassified_kept(pred_node) == div_pred

(* Lines 75-76 *)
RemoveClassified(pred_node) == div_pred \ {pred_node}

(* Lines 42-44: the two division lists *)
CollectDivisions ==
    /\ pc' = "gt_loop"
    /\ div_gt' \in Perms(get_divisions(gt_edges))
    /\ div_pred' = get_divisions(pred_edges)
    /\ i' = 1

(* evaluate_division_events, lines 258-263: min_buffer_correct of the FN_DIV
   and FP_DIV nodes is set to NaN; the two flag sets keep one iteration order
   (lines 158-159) through the passes that follow *)
MarkUnset(flags_of_pred) ==
    /\ gt_mbc' = [n \in Nodes |-> IF FN_DIV \in gt_flags[n] THEN NaN ELSE gt_mbc[n]]
    /\ pred_mbc' = [n \in Nodes |-> IF FP_DIV \in flags_of_pred[n] THEN NaN ELSE pred_mbc[n]]
    /\ fp_divs' \in Perms(get_nodes_with_flag(flags_of_pred, FP_DIV))
    /\ fn_divs' \in Perms(get_nodes_with_flag(gt_flags, FN_DIV))
    /\ recorded' = {}
    /\ n_frames' = 1
    /\ pc' = "pass"

(* A direct call of _classify_divisions, lines 35-44 *)
CallClassify ==
    /\ pc = "idle"
    /\ entry' = "classify"
    /\ IF AlreadyAnnotated
       THEN /\ outcome' = "returned"
            /\ UNCHANGED <<pc, div_gt, div_pred, i>>
       ELSE /\ outcome' = "running"
            /\ CollectDivisions
    /\ UNCHANGED <<gt_edges, pred_edges, mapping, gt_flags, pred_flags, gt_annot,
                   pred_annot, gt_mbc, pred_mbc, max_frame_buffer, n_frames,
                   fp_divs, fn_divs, k, recorded, iou_vars>>

(* Lines 46-76: one iteration of the loop over div_gt *)
ClassifyGtNode ==
    /\ pc = "gt_loop"
    /\ i <= Len(div_gt)
    /\ LET gt_node == div_gt[i]
           pred_node == get_gt_pred_match(gt_node)
       IN /\ IF pred_node = None
             THEN /\ gt_flags' = set_flag_on_node(gt_flags, gt_node, FN_DIV)
                  /\ UNCHANGED pred_flags
             ELSE IF NotInDivPred(pred_node)
             THEN /\ gt_flags' = set_flag_on_node(gt_flags, gt_node, FN_DIV)
                  /\ UNCHANGED pred_flags
             ELSE IF DaughtersSame(gt_node, pred_node)
             THEN /\ gt_flags' = set_flag_on_node(gt_flags, gt_node, TP_DIV)
                  /\ pred_flags' = set_flag_on_node(pred_flags, pred_node, TP_DIV)
             ELSE /\ gt_flags' = set_flag_on_node(gt_flags, gt_node, WC_DIV)
                  /\ pred_flags' = set_flag_on_node(pred_flags, pred_node, WC_DIV)
          /\ div_pred' = RemoveClassified(pred_node)
    /\ i' = i + 1
    /\ UNCHANGED <<gt_edges, pred_edges, mapping, gt_annot, pred_annot, gt_mbc,
                   pred_mbc, pc, entry, outcome, div_gt, max_frame_buffer,
                   n_frames, fp_divs, fn_divs, k, recorded, iou_vars>>

(* Lines 78-84: remaining pred divisions are FP_DIV, then the annotation
   flags; the call returns, and evaluate_division_events goes on to line 258 *)
ClassifyFinish ==
    /\ pc = "gt_loop"
    /\ i > Len(div_gt)
    /\ pred_flags' = [n \in Nodes |-> IF n \in div_pred
                                      THEN pred_flags[n] \cup {FP_DIV}
                                      ELSE pred_flags[n]]
    /\ gt_annot' = TRUE
    /\ pred_annot' = TRUE
    /\ div_gt' = <<>>
    /\ div_pred' = {}
    /\ i' = 1
    /\ IF entry = "evaluate"
       THEN /\ MarkUnset(pred_flags')
            /\ UNCHANGED outcome
       ELSE /\ pc' = "idle"
            /\ outcome' = "returned"
            /\ UNCHANGED <<gt_mbc, pred_mbc, n_frames, fp_divs, fn_divs, recorded>>
    /\ UNCHANGED <<gt_edges, pred_edges, mapping, gt_flags, entry,
                   max_frame_buffer, k, iou_vars>>

----------------------------------------------------------------------------
(* _get_pred_by_t, _get_succ_by_t *)

(* Mutant of _get_pred_by_t: a merge is walked through instead of raising *)
RECURSIVE _get_pred_by_t_no_raise(_, _, _)
_get_pred_by_t_no_raise(E, node, delta_frames) ==
    IF delta_frames = 0 THEN node
    ELSE LET nodes == predecessors(E, node)
         IN IF Cardinality(nodes) = 0 THEN None
            ELSE _get_pred_by_t_no_raise(E, CHOOSE m \in nodes : TRUE, delta_frames - 1)

RECURSIVE _get_pred_by_t(_, _, _)
_get_pred_by_t(E, node, delta_frames) ==
    IF delta_frames = 0 THEN node
    ELSE LET nodes == predecessors(E, node)
         IN IF Cardinality(nodes) = 0 THEN None
            ELSE IF Cardinality(nodes) > 1 THEN Raise
            ELSE _get_pred_by_t(E, CHOOSE m \in nodes : TRUE, delta_frames - 1)

RECURSIVE _get_succ_by_t(_, _, _)
_get_succ_by_t(E, node, delta_frames) ==
    IF delta_frames = 0 THEN node
    ELSE LET nodes == successors(E, node)
         IN IF Cardinality(nodes) = 0 \/ Cardinality(nodes) >= 2 THEN None
            ELSE _get_succ_by_t(E, CHOOSE m \in nodes : TRUE, delta_frames - 1)

----------------------------------------------------------------------------
(* _correct_shifted_divisions *)

IsNumber(v) == v # NaN /\ v # NoAttr

(* Mutant of AlreadyCorrected: the skip of lines 173-177 is dropped *)
AlreadyCorrected_dropped(fp_node, fn_node) == FALSE

(* Lines 173-176 *)
AlreadyCorrected(fp_node, fn_node) ==
    IsNumber(pred_mbc[fp_node]) \/ IsNumber(gt_mbc[fn_node])

(* Mutant of OutsideBuffer: pairs exactly n_frames apart are skipped too *)
OutsideBuffer_off_by_one(t_fp, t_fn) == Abs(t_fp - t_fn) >= n_frames \/ t_fp = t_fn

(* Mutant of OutsideBuffer: the distance is not compared with n_frames *)
OutsideBuffer_any_distance(t_fp, t_fn) == t_fp = t_fn

(* Line 180 *)
OutsideBuffer(t_fp, t_fn) == Abs(t_fp - t_fn) > n_frames \/ t_fp = t_fn

(* Lines 186 and 208: the ancestor of the later division *)
Ancestor(fp_node, fn_node) ==
    LET t_fp == frame_key[fp_node]
        t_fn == frame_key[fn_node]
    IN IF t_fp < t_fn
       THEN _get_pred_by_t(gt_edges, fn_node, t_fn - t_fp)
       ELSE _get_pred_by_t(pred_edges, fp_node, t_fp - t_fn)

(* Lines 188 and 210 *)
ParentsMatch(fp_node, fn_node) ==
    IF frame_key[fp_node] < frame_key[fn_node]
    THEN <<Ancestor(fp_node, fn_node), fp_node>> \in Range(mapping)
    ELSE <<fn_node, Ancestor(fp_node, fn_node)>> \in Range(mapping)

(* Lines 193-199 and 215-221 *)
ShiftedDaughtersMatch(fp_node, fn_node) ==
    LET t_fp == frame_key[fp_node]
        t_fn == frame_key[fn_node]
        fp_proj(node) == _get_succ_by_t(pred_edges, node, t_fn - t_fp)
        fn_proj(node) == _get_succ_by_t(gt_edges, node, t_fp - t_fn)
    IN IF t_fp < t_fn
       THEN Counter([n \in successors(pred_edges, fp_node) |-> fp_proj(n)])
                = Counter([n \in successors(gt_edges, fn_node) |-> get_gt_pred_match(n)])
       ELSE Counter([n \in successors(pred_edges, fp_node) |-> get_pred_gt_match(n)])
                = Counter([n \in successors(gt_edges, fn_node) |-> fn_proj(n)])

NumPairs == Len(fp_divs) * Len(fn_divs)

(* itertools.product(fp_divs, fn_divs): element k, fn_divs varying fastest *)
CurFp == fp_divs[((k - 1) \div Len(fn_divs)) + 1]

CurFn == fn_divs[((k - 1) % Len(fn_divs)) + 1]

(* Lines 165-231: one iteration of the loop over the pairs *)
CorrectPair ==
    /\ pc = "pairs"
    /\ k <= NumPairs
    /\ LET fp_node == CurFp
           fn_node == CurFn
       IN IF \/ AlreadyCorrected(fp_node, fn_node)
             \/ OutsideBuffer(frame_key[fp_node], frame_key[fn_node])
          THEN /\ k' = k + 1
               /\ UNCHANGED <<gt_mbc, pred_mbc, recorded, pc, outcome>>
          ELSE IF Ancestor(fp_node, fn_node) = Raise
          THEN /\ pc' = "idle"
               /\ outcome' = "raised"
               /\ k' = 1
               /\ UNCHANGED <<gt_mbc, pred_mbc, recorded>>
          ELSE IF ~ParentsMatch(fp_node, fn_node)
          THEN /\ k' = k + 1
               /\ UNCHANGED <<gt_mbc, pred_mbc, recorded, pc, outcome>>
          ELSE IF ~ShiftedDaughtersMatch(fp_node, fn_node)
          THEN /\ k' = k + 1
               /\ UNCHANGED <<gt_mbc, pred_mbc, recorded, pc, outcome>>
          ELSE /\ gt_mbc' = [gt_mbc EXCEPT ![fn_node] = n_frames]
               /\ pred_mbc' = [pred_mbc EXCEPT ![fp_node] = n_frames]
               /\ recorded' = recorded \cup {<<fp_node, fn_node, n_frames>>}
               /\ k' = k + 1
               /\ UNCHANGED <<pc, outcome>>
    /\ UNCHANGED <<gt_edges, pred_edges, mapping, gt_flags, pred_flags, gt_annot,
                   pred_annot, entry, div_gt, div_pred, i, max_frame_buffer,
                   n_frames, fp_divs, fn_divs, iou_vars>>

(* The call of line 267 returns; the loop of line 266 moves to the next delta *)
EndPass ==
    /\ pc = "pairs"
    /\ k > NumPairs
    /\ n_frames' = n_frames + 1
    /\ k' = 1
    /\ pc' = "pass"
    /\ UNCHANGED <<gt_edges, pred_edges, mapping, gt_flags, pred_flags, gt_annot,
                   pred_annot, gt_mbc, pred_mbc, entry, outcome, div_gt,
                   div_pred, i, max_frame_buffer, fp_divs, fn_divs, recorded,
                   iou_vars>>

----------------------------------------------------------------------------
(* evaluate_division_events *)

(* Line 254: the call of _classify_divisions, which returns at once on
   annotated graphs (lines 38-40) and leaves lines 258-263 to run *)
CallEvaluate ==
    /\ pc = "idle"
    /\ entry' = "evaluate"
    /\ outcome' = "running"
    /\ max_frame_buffer' \in 0..MaxBuffer
    /\ IF AlreadyAnnotated
       THEN /\ MarkUnset(pred_flags)
            /\ UNCHANGED <<div_gt, div_pred, i>>
       ELSE /\ CollectDivisions
            /\ UNCHANGED <<gt_mbc, pred_mbc, n_frames, fp_divs, fn_divs, recorded>>
    /\ UNCHANGED <<gt_edges, pred_edges, mapping, gt_flags, pred_flags, gt_annot,
                   pred_annot, k, iou_vars>>

(* Lines 266-267: enter _correct_shifted_divisions for the next delta *)
BeginPass ==
    /\ pc = "pass"
    /\ n_frames <= max_frame_buffer
    /\ k' = 1
    /\ pc' = "pairs"
    /\ UNCHANGED <<gt_edges, pred_edges, mapping, gt_flags, pred_flags, gt_annot,
                   pred_annot, gt_mbc, pred_mbc, entry, outcome, div_gt,
                   div_pred, i, max_frame_buffer, n_frames, fp_divs, fn_divs,
                   recorded, iou_vars>>

(* Line 269 *)
EvaluateReturn ==
    /\ pc = "pass"
    /\ n_frames > max_frame_buffer
    /\ pc' = "idle"
    /\ outcome' = "returned"
    /\ n_frames' = 1
    /\ fp_divs' = <<>>
    /\ fn_divs' = <<>>
    /\ UNCHANGED <<gt_edges, pred_edges, mapping, gt_flags, pred_flags, gt_annot,
                   pred_annot, gt_mbc, pred_mbc, entry, div_gt, div_pred, i,
                   max_frame_buffer, k, recorded, iou_vars>>

----------------------------------------------------------------------------
(* Inputs: lineage shapes over the node layout, and mappings *)

ShapeA == {<<1, 2>>, <<1, 3>>, <<2, 4>>, <<3, 5>>, <<4, 6>>, <<5, 7>>}
ShapeB == {<<1, 2>>, <<2, 4>>, <<2, 5>>, <<4, 6>>, <<5, 7>>}
ShapeC == {<<1, 2>>, <<2, 4>>, <<4, 6>>, <<4, 7>>}
ShapeD == {<<1, 2>>, <<2, 4>>, <<2, 5>>, <<4, 6>>, <<4, 7>>}
ShapeE == {<<1, 2>>, <<1, 3>>}
ShapeF == {<<1, 2>>, <<1, 3>>, <<2, 4>>, <<3, 4>>, <<4, 6>>, <<4, 7>>}
ShapeG == {<<1, 2>>, <<2, 4>>, <<2, 5>>, <<4, 6>>, <<5, 6>>}
ShapeH == {<<1, 2>>, <<1, 3>>, <<2, 4>>, <<2, 5>>, <<3, 4>>, <<3, 5>>}
Shapes == {ShapeA, ShapeB, ShapeC, ShapeD, ShapeE, ShapeF, ShapeG, ShapeH}

RECURSIVE SortedSeq(_)
SortedSeq(S) ==
    IF S = {} THEN <<>>
    ELSE LET m == CHOOSE x \in S : \A y \in S : x <= y
         IN <<m>> \o SortedSeq(S \ {m})

IdentityPairs(S) == [j \in 1..Cardinality(S) |-> <<SortedSeq(S)[j], SortedSeq(S)[j]>>]

CrossPairs == {<<3, 2>>, <<4, 5>>, <<6, 7>>}

MaxUnmatched == 2

Matchable == {Nodes \ U : U \in {V \in SUBSET Nodes : Cardinality(V) <= MaxUnmatched}}

Mappings ==
    {IdentityPairs(S) : S \in Matchable}
    \cup {<<c>> \o IdentityPairs(S) : c \in CrossPairs, S \in Matchable}
    \cup {IdentityPairs(S) \o <<c>> : c \in CrossPairs, S \in Matchable}

IouIdle ==
    /\ gt_frame = <<>>
    /\ res_frame = <<>>
    /\ threshold = <<1, 1>>
    /\ matches = {}
    /\ iou_pc = "off"

Init ==
    /\ gt_edges \in Shapes
    /\ pred_edges \in Shapes
    /\ mapping \in Mappings
    /\ gt_flags = [n \in Nodes |-> {}]
    /\ pred_flags = [n \in Nodes |-> {}]
    /\ gt_annot = FALSE
    /\ pred_annot = FALSE
    /\ gt_mbc = [n \in Nodes |-> NoAttr]
    /\ pred_mbc = [n \in Nodes |-> NoAttr]
    /\ pc = "idle"
    /\ entry = "none"
    /\ outcome = "none"
    /\ div_gt = <<>>
    /\ div_pred = {}
    /\ i = 1
    /\ max_frame_buffer = 0
    /\ n_frames = 1
    /\ fp_divs = <<>>
    /\ fn_divs = <<>>
    /\ k = 1
    /\ recorded = {}
    /\ IouIdle

Next ==
    \/ CallClassify
    \/ ClassifyGtNode
    \/ ClassifyFinish
    \/ CallEvaluate
    \/ BeginPass
    \/ CorrectPair
    \/ EndPass
    \/ EvaluateReturn

Spec == Init /\ [][Next]_vars

----------------------------------------------------------------------------
(* _match_nodes: labeled frames are rows of NumPixels pixels, label 0 is background *)

NumPixels == 3
MaxLabel == 2

Pixels == 1..NumPixels
Frames == [Pixels -> 0..MaxLabel]
Thresholds == {<<1, 3>>, <<1, 2>>, <<2, 3>>, <<1, 1>>}

MaxOf(S) == CHOOSE x \in S : \A y \in S : y <= x

MinOf(S) == CHOOSE x \in S : \A y \in S : x <= y

region(frame, label) == {x \in Pixels : frame[x] = label}

(* Overlap candidate finder: pairs of labels whose bounding regions intersect *)
get_labels_with_overlap(gt, res) ==
    {c \in (1..MaxLabel) \X (1..MaxLabel) :
        /\ region(gt, c[1]) # {}
        /\ region(res, c[2]) # {}
        /\ MinOf(region(gt, c[1])) <= MaxOf(region(res, c[2]))
        /\ MinOf(region(res, c[2])) <= MaxOf(region(gt, c[1]))}

(* Line 30: np.zeros((np.max(gt) + 1, np.max(res) + 1)), entries as <<num, den>> *)
ZeroIou(gt, res) ==
    [c \in (0..MaxOf(Range(gt))) \X (0..MaxOf(Range(res))) |-> <<0, 1>>]

(* Lines 37-39 *)
IouOf(gt, res, iou_gt_idx, iou_res_idx) ==
    LET intersection == region(gt, iou_gt_idx) \cap region(res, iou_res_idx)
        union == region(gt, iou_gt_idx) \cup region(res, iou_res_idx)
    IN <<Cardinality(intersection), Cardinality(union)>>

(* Lines 34-39: the loop over the candidate pairs *)
RECURSIVE FillIou(_, _, _, _)
FillIou(iou, todo, gt, res) ==
    IF todo = {} THEN iou
    ELSE LET c == CHOOSE x \in todo : TRUE
         IN FillIou([iou EXCEPT ![c] = IouOf(gt, res, c[1], c[2])],
                    todo \ {c}, gt, res)

(* Mutant of AtLeast: strict comparison *)
AtLeast_strict(value, t) == value[1] * t[2] > t[1] * value[2]

(* Line 41: iou >= threshold, both as fractions with positive denominators *)
AtLeast(value, t) == value[1] * t[2] >= t[1] * value[2]

(* Lines 27-49 *)
_match_nodes(gt, res, t) ==
    LET iou == FillIou(ZeroIou(gt, res), get_labels_with_overlap(gt, res), gt, res)
    IN {c \in DOMAIN iou : AtLeast(iou[c], t)}

MatchNodes ==
    /\ iou_pc = "ready"
    /\ matches' = _match_nodes(gt_frame, res_frame, threshold)
    /\ iou_pc' = "done"
    /\ UNCHANGED <<gt_frame, res_frame, threshold, div_vars>>

DivIdle ==
    /\ gt_edges = {}
    /\ pred_edges = {}
    /\ mapping = <<>>
    /\ gt_flags = [n \in Nodes |-> {}]
    /\ pred_flags = [n \in Nodes |-> {}]
    /\ gt_annot = FALSE
    /\ pred_annot = FALSE
    /\ gt_mbc = [n \in Nodes |-> NoAttr]
    /\ pred_mbc = [n \in Nodes |-> NoAttr]
    /\ pc = "off"
    /\ entry = "none"
    /\ outcome = "none"
    /\ div_gt = <<>>
    /\ div_pred = {}
    /\ i = 1
    /\ max_frame_buffer = 0
    /\ n_frames = 1
    /\ fp_divs = <<>>
    /\ fn_divs = <<>>
    /\ k = 1
    /\ recorded = {}

InitIoU ==
    /\ gt_frame \in Frames
    /\ res_frame \in Frames
    /\ threshold \in Thresholds
    /\ matches = {}
    /\ iou_pc = "ready"
    /\ DivIdle

NextIoU == MatchNodes

SpecIoU == InitIoU /\ [][NextIoU]_vars

----------------------------------------------------------------------------
(* Properties of _classify_divisions *)

Classifying == pc = "gt_loop" /\ i <= Len(div_gt)

(* The pred daughters, mapped back, are exactly the gt daughters, one each *)
SameDaughtersUnderMapping(g, p) ==
    LET sg == successors(gt_edges, g)
        sp == successors(pred_edges, p)
    IN /\ Cardinality(sp) = Cardinality(sg)
       /\ {get_pred_gt_match(e) : e \in sp} = sg

(* One pred daughter is unmatched, every other one maps to a gt daughter *)
CountOnlyMismatch(g, p) ==
    LET sg == successors(gt_edges, g)
        sp == successors(pred_edges, p)
    IN /\ Cardinality(sp) = Cardinality(sg)
       /\ Cardinality({e \in sp : get_pred_gt_match(e) = None}) = 1
       /\ \A e \in sp : get_pred_gt_match(e) \in sg \cup {None}

\* C1: a gt division whose single match is a not yet consumed pred division
\* gets TP_DIV on both nodes when the daughters agree as multisets under the
\* mapping, and WC_DIV on both nodes for any discrepancy, count-only included.
C1_TpOrWc ==
    [][Classifying =>
        LET g == div_gt[i]
            p == get_gt_pred_match(g)
        IN (p # None /\ p \in div_pred) =>
              IF SameDaughtersUnderMapping(g, p)
              THEN /\ gt_flags'[g] = gt_flags[g] \cup {TP_DIV}
                   /\ pred_flags'[p] = pred_flags[p] \cup {TP_DIV}
              ELSE /\ gt_flags'[g] = gt_flags[g] \cup {WC_DIV}
                   /\ pred_flags'[p] = pred_flags[p] \cup {WC_DIV}]_vars

C1_Witness ==
    \E g1, g2 \in Nodes :
        /\ gt_flags[g1] = {TP_DIV}
        /\ pred_flags[get_gt_pred_match(g1)] = {TP_DIV}
        /\ gt_flags[g2] = {WC_DIV}
        /\ pred_flags[get_gt_pred_match(g2)] = {WC_DIV}
        /\ CountOnlyMismatch(g2, get_gt_pred_match(g2))

Unmatched(g) == \A j \in DOMAIN mapping : mapping[j][1] # g

MatchedToNonDivision(g) ==
    /\ ~Unmatched(g)
    /\ get_gt_pred_match(g) \notin get_divisions(pred_edges)

\* C2: a gt division with no matched pred node, or matched to a pred node
\* that is not a division, is flagged FN_DIV, never TP_DIV or WC_DIV, and the
\* iteration that flags it writes nothing on the pred graph.
C2_FalseNegative ==
    /\ [](\A g \in get_divisions(gt_edges) :
            (Unmatched(g) \/ MatchedToNonDivision(g)) =>
                /\ gt_flags[g] \subseteq {FN_DIV}
                /\ (gt_annot => gt_flags[g] = {FN_DIV}))
    /\ [][(Classifying /\ (Unmatched(div_gt[i]) \/ MatchedToNonDivision(div_gt[i]))) =>
            /\ gt_flags'[div_gt[i]] = {FN_DIV}
            /\ pred_flags' = pred_flags]_vars

C2_Witness ==
    /\ gt_annot
    /\ \E g1, g2 \in get_divisions(gt_edges) :
          /\ Unmatched(g1)
          /\ MatchedToNonDivision(g2)
          /\ gt_flags[g1] = {FN_DIV}
          /\ gt_flags[g2] = {FN_DIV}

LookedUpBy(p) == {g \in get_divisions(gt_edges) : get_gt_pred_match(g) = p}

C6_SecondCallNoOp ==
    [][(gt_annot /\ pred_annot) =>
        /\ gt_flags' = gt_flags
        /\ pred_flags' = pred_flags
        /\ gt_annot' /\ pred_annot'
        /\ pc' # "gt_loop"
        /\ (entry' = "classify" => pc' = "idle" /\ outcome' = "returned")]_vars

C6_Witness ==
    /\ pc = "idle"
    /\ entry = "classify"
    /\ outcome = "returned"
    /\ \E n \in Nodes : gt_mbc[n] = NaN
    /\ \E g \in Nodes : gt_flags[g] = {TP_DIV}
    /\ \E p \in Nodes : pred_flags[p] = {FP_DIV}

----------------------------------------------------------------------------
(* Properties of _correct_shifted_divisions and evaluate_division_events *)

EvaluateDone == pc = "idle" /\ entry = "evaluate" /\ outcome = "returned"

FPs == get_nodes_with_flag(pred_flags, FP_DIV)

FNs == get_nodes_with_flag(gt_flags, FN_DIV)

Distance(fp, fn) == Abs(frame_key[fp] - frame_key[fn])

(* The nodes reached from n by exactly l backward steps *)
RECURSIVE BackN(_, _, _)
BackN(E, n, l) ==
    IF l = 0 THEN {n}
    ELSE {m \in Nodes : \E x \in BackN(E, n, l - 1) : <<m, x>> \in E}

(* n has one ancestor at every one of the d levels above it *)
SingleLineage(E, n, d) == \A l \in 1..d : Cardinality(BackN(E, n, l)) = 1

(* The first level above n, within d, that is not a single node holds several *)
WalkMeetsMerge(E, n, d) ==
    \E l \in 1..d : /\ Cardinality(BackN(E, n, l)) >= 2
                    /\ SingleLineage(E, n, l - 1)

(* The nodes reached from n by exactly l forward steps along single successors *)
RECURSIVE ForwardN(_, _, _)
ForwardN(E, n, l) ==
    IF l = 0 THEN {n}
    ELSE {m \in Nodes : \E x \in ForwardN(E, n, l - 1) :
                            successors(E, x) = {m}}

\* C4: while evaluate_division_events runs its passes, a numeric
\* min_buffer_correct on a node is never overwritten or changed.
C4_NeverOverwritten ==
    [][(pc = "pass" \/ pc = "pairs") =>
        \A n \in Nodes :
            /\ IsNumber(gt_mbc[n]) => gt_mbc'[n] = gt_mbc[n]
            /\ IsNumber(pred_mbc[n]) => (pred_mbc'[n] = pred_mbc[n])]_vars

C4_Witness ==
    /\ pc = "pairs"
    /\ n_frames = 2
    /\ k > NumPairs
    /\ \E fp \in Nodes, fn \in Nodes :
          /\ <<fp, fn, 1>> \in recorded
          /\ gt_mbc[fn] = 1
          /\ pred_mbc[fp] = 1

Examined(fp, fn) ==
    /\ ~IsNumber(pred_mbc[fp])
    /\ ~IsNumber(gt_mbc[fn])
    /\ Distance(fp, fn) >= 1
    /\ Distance(fp, fn) <= n_frames

LaterWalkMeetsMerge(fp, fn) ==
    IF frame_key[fp] < frame_key[fn]
    THEN WalkMeetsMerge(gt_edges, fn, Distance(fp, fn))
    ELSE WalkMeetsMerge(pred_edges, fp, Distance(fp, fn))

ShiftedDaughtersAgree(early_E, early, late_E, late, d, match) ==
    LET se == successors(early_E, early)
        sl == successors(late_E, late)
    IN /\ \A e \in se : ForwardN(early_E, e, d) # {}
       /\ \A x \in sl : match[x] # None
       /\ \A v \in Nodes :
             Cardinality({e \in se : ForwardN(early_E, e, d) = {v}})
                 = Cardinality({x \in sl : match[x] = v})

(* fp and fn are d >= 1 frames apart, the single ancestor of the later one d
   frames back is mapped to the earlier one, and the daughters agree *)
ShiftedPair(fp, fn, d) ==
    /\ d >= 1
    /\ Distance(fp, fn) = d
    /\ IF frame_key[fp] < frame_key[fn]
       THEN /\ SingleLineage(gt_edges, fn, d)
            /\ \E a \in BackN(gt_edges, fn, d) : <<a, fp>> \in Range(mapping)
            /\ ShiftedDaughtersAgree(pred_edges, fp, gt_edges, fn, d,
                                     [x \in Nodes |-> get_gt_pred_match(x)])
       ELSE /\ SingleLineage(pred_edges, fp, d)
            /\ \E a \in BackN(pred_edges, fp, d) : <<fn, a>> \in Range(mapping)
            /\ ShiftedDaughtersAgree(gt_edges, fn, pred_edges, fp, d,
                                     [x \in Nodes |-> get_pred_gt_match(x)])

ShiftsOfFn(fn) ==
    {d \in 1..max_frame_buffer : \E fp \in FPs : ShiftedPair(fp, fn, d)}

ShiftsOfFp(fp) ==
    {d \in 1..max_frame_buffer : \E fn \in FNs : ShiftedPair(fp, fn, d)}

\* C7 as stated: after evaluate_division_events(M) both nodes of every shifted
\* FP_DIV/FN_DIV pair at distance d <= M carry the smallest such d as
\* min_buffer_correct and keep their flags.
C7_EveryShiftedPairRecorded ==
    EvaluateDone =>
        \A fp \in FPs, fn \in FNs, d \in 1..max_frame_buffer :
            ShiftedPair(fp, fn, d) =>
                /\ gt_mbc[fn] = MinOf(ShiftsOfFn(fn))
                /\ pred_mbc[fp] = MinOf(ShiftsOfFp(fp))

\* C7 amended: after evaluate_division_events(M), a shifted FP_DIV/FN_DIV pair
\* at distance d <= M has min_buffer_correct = d on both nodes, unless one of
\* the two was recorded with another partner at a buffer <= d, in which case
\* the other node may stay unset; the flags FN_DIV and FP_DIV are kept.
C7_ShiftedPairRecordedOrTaken ==
    EvaluateDone =>
        \A fp \in Nodes, fn \in Nodes, d \in 1..max_frame_buffer :
            (fp \in FPs /\ fn \in FNs /\ ShiftedPair(fp, fn, d)) =>
                /\ gt_flags[fn] = {FN_DIV}
                /\ pred_flags[fp] = {FP_DIV}
                /\ \/ /\ <<fp, fn, d>> \in recorded
                      /\ gt_mbc[fn] = d
                      /\ pred_mbc[fp] = d
                   \/ \E r \in recorded : r[1] = fp /\ r[2] # fn /\ r[3] <= d
                   \/ \E r \in recorded : r[2] = fn /\ r[1] # fp /\ r[3] <= d

C7_Witness ==
    /\ EvaluateDone
    /\ max_frame_buffer = 1
    /\ \E fp \in FPs, fn \in FNs :
          /\ frame_key[fp] = frame_key[fn] + 1
          /\ ShiftedPair(fp, fn, 1)
          /\ gt_mbc[fn] = 1
          /\ pred_mbc[fp] = 1
          /\ gt_flags[fn] = {FN_DIV}
          /\ pred_flags[fp] = {FP_DIV}

Injections(S, T) == {h \in [S -> T] : \A a, b \in S : a # b => h[a] # h[b]}

(* The ancestor pair is in the mapping and every daughter of the earlier
   division, walked d frames on, is a node the mapping pairs with a daughter
   of the later division of its own *)
LineagesMatch(fp, fn) ==
    LET d == Distance(fp, fn)
    IN IF frame_key[fp] < frame_key[fn]
       THEN /\ SingleLineage(gt_edges, fn, d)
            /\ \E a \in BackN(gt_edges, fn, d) : <<a, fp>> \in Range(mapping)
            /\ \E h \in Injections(successors(pred_edges, fp), successors(gt_edges, fn)) :
                  \A e \in successors(pred_edges, fp) :
                      \E v \in ForwardN(pred_edges, e, d) : <<h[e], v>> \in Range(mapping)
       ELSE /\ SingleLineage(pred_edges, fp, d)
            /\ \E a \in BackN(pred_edges, fp, d) : <<fn, a>> \in Range(mapping)
            /\ \E h \in Injections(successors(gt_edges, fn), successors(pred_edges, fp)) :
                  \A x \in successors(gt_edges, fn) :
                      \E v \in ForwardN(gt_edges, x, d) : <<v, h[x]>> \in Range(mapping)

\* C9: min_buffer_correct is recorded on a pair only when the ancestor pair is
\* in the mapping and every projected daughter of the earlier division is an
\* existing node mapped to a distinct daughter of the later division; a
\* projection that resolved to none or an unmatched daughter corresponds to
\* nothing.
C9_RecordedOnlyIfLineagesMatch ==
    \A r \in recorded : LineagesMatch(r[1], r[2])

ValuesOf(mbc, v) == {n \in Nodes : mbc[n] = v}

\* C10: after evaluate_division_events(M) every numeric min_buffer_correct k
\* lies in 1..M, sits on an FN_DIV gt node or FP_DIV pred node, and was
\* written with exactly one partner of the other graph holding the same k at
\* frame distance exactly k; no node is the partner of two nodes, the two
\* graphs hold as many nodes with value k, and with M = 0 all stay unset.
C10_ExclusivePairs ==
    EvaluateDone =>
        /\ \A n \in Nodes :
              IsNumber(gt_mbc[n]) =>
                  /\ n \in FNs
                  /\ gt_mbc[n] \in 1..max_frame_buffer
                  /\ Cardinality({r \in recorded : r[2] = n}) = 1
                  /\ \A r \in recorded :
                        r[2] = n => /\ r[3] = gt_mbc[n]
                                    /\ pred_mbc[r[1]] = r[3]
                                    /\ Distance(r[1], n) = r[3]
        /\ \A n \in Nodes :
              IsNumber(pred_mbc[n]) =>
                  /\ n \in FPs
                  /\ pred_mbc[n] \in 1..max_frame_buffer
                  /\ Cardinality({r \in recorded : r[1] = n}) = 1
                  /\ \A r \in recorded :
                        r[1] = n => /\ r[3] = pred_mbc[n]
                                    /\ gt_mbc[r[2]] = r[3]
                                    /\ Distance(n, r[2]) = r[3]
        /\ \A r \in recorded : IsNumber(gt_mbc[r[2]]) /\ IsNumber(pred_mbc[r[1]])
        /\ \A v \in 1..max_frame_buffer :
              Cardinality(ValuesOf(gt_mbc, v)) = Cardinality(ValuesOf(pred_mbc, v))
        /\ max_frame_buffer = 0 =>
              /\ \A n \in FNs : gt_mbc[n] = NaN
              /\ \A n \in FPs : pred_mbc[n] = NaN

C10_Witness ==
    /\ EvaluateDone
    /\ max_frame_buffer = 2
    /\ \E fp \in FPs, other \in FPs, fn \in FNs :
          /\ <<fp, fn, 1>> \in recorded
          /\ gt_mbc[fn] = 1
          /\ pred_mbc[fp] = 1
          /\ ShiftedPair(other, fn, 2)
          /\ pred_mbc[other] = NaN

\* C8: _match_nodes returns exactly the candidate pairs whose intersection
\* over union reaches the threshold, the empty set when there is no candidate,
\* and for identical frames at threshold 1 it matches every non-background
\* label to itself only.
C8_MatchNodes ==
    iou_pc = "done" =>
        /\ matches =
              {c \in get_labels_with_overlap(gt_frame, res_frame) :
                  Cardinality(region(gt_frame, c[1]) \cap region(res_frame, c[2]))
                          * threshold[2]
                      >= threshold[1]
                          * Cardinality(region(gt_frame, c[1]) \cup region(res_frame, c[2]))}
        /\ (get_labels_with_overlap(gt_frame, res_frame) = {} => matches = {})
        /\ (gt_frame = res_frame /\ threshold = <<1, 1>>) =>
              matches = {<<l, l>> : l \in Range(gt_frame) \ {0}}

C8_Witness ==
    /\ iou_pc = "done"
    /\ gt_frame = res_frame
    /\ threshold = <<1, 1>>
    /\ Cardinality(matches) = 2

====
